---- MODULE Spec2Model ----
(***************************************************************************)
(* Hotel monitoring utility: the GraphQL resolvers that register, rescrape *)
(* and delete listings (apps/backend/src/resolvers.ts), the relational     *)
(* schema they write to (the Prisma migration), the price and URL          *)
(* utilities, and one scrape attempt of each of the two scrapers: browser  *)
(* lifecycle, interception, manual replay and DOM scraping.                *)
(*                                                                         *)
(* Every `await` of a resolver is one step: between two awaits of one      *)
(* request any other request may run.  A request slot is used once.        *)
(***************************************************************************)
EXTENDS Integers, Sequences, FiniteSets, TLC

\* ------------------------------------------------------------------ bounds
NumReqs == 3
MaxHotels == 2
\* Attempts share no state: each has a browser, a page and locals of its own.
NumAttempts == 1

Reqs == 1..NumReqs
Attempts == 1..NumAttempts
HotelIds == 1..MaxHotels
Urls == {"u1", "u2"}
Dates == {1, 2}
Versions == {1, 2}

\* ------------------------------------------------------------- the schema
Null == "null"
NoHotel == [bookingUrl |-> Null]
ErrorName == "Error scraping hotel"

\* CREATE TABLE "Hotel": a row as prisma.hotel.create leaves it.
NewHotel(url) ==
  [bookingUrl |-> url, externalHotelId |-> Null, name |-> Null, location |-> Null,
   currency |-> Null, ratingOverall |-> Null, ratingLocation |-> Null,
   amenities |-> "[]"]

\* ------------------------------------------------- what a scrape resolves to
\* interface ScrapedHotelData: the descriptive fields of the page as rendered
\* at version v, and the day list the scraper returned.
\* The check-in dates of a day list: a calendar window, or one day delivered
\* twice (two captured responses that cover the same date).
DayLists == {<<>>, <<1>>, <<2>>, <<1, 2>>, <<1, 1>>}

DailyPriceOf(v, d) ==
  [checkInDate |-> d, price |-> 100 * v, available |-> (v % 2 = 1)]

ScrapedHotelData(v, days) ==
  [hotelName |-> "Hotel " \o ToString(v), hotelId |-> "id" \o ToString(v),
   location |-> "loc" \o ToString(v), currency |-> "cur" \o ToString(v),
   ratingOverall |-> "ro" \o ToString(v), ratingLocation |-> "rl" \o ToString(v),
   amenities |-> "am" \o ToString(v),
   dailyPrices |-> [i \in 1..Len(days) |-> DailyPriceOf(v, days[i])]]

ScrapeResults == {ScrapedHotelData(v, days) : v \in Versions, days \in DayLists}
NoResult == [hotelName |-> Null]

VARIABLES hotel, nextId, dailyPrice, req, attempt, call

vars == <<hotel, nextId, dailyPrice, req, attempt, call>>

\* ---------------------------------------------------------------- requests
\* One request: the resolver it runs (op), the await it stands at (pc), its
\* arguments and locals (url, hotelId, scraped), what it returned (response)
\* and, for Hotel.dailyPrices, the rows it returned (read).  prior is a
\* history field: the listing and its price rows as they were when the scrape
\* of a rescrape request returned, just before its result is applied;
\* obtained is another: the result that a background scrape has written to
\* its listing, or the result with a day list that a rescrape request went
\* on to store, kept when the request has ended; late is a third:
\* whether the request has taken a step when its listing was no longer stored.
NoPrior == [hotel |-> NoHotel, rows |-> {}]
NoRead == [source |-> "none", rows |-> <<>>]

IdleReq ==
  [op |-> "none", pc |-> "idle", url |-> Null, hotelId |-> 0,
   scraped |-> NoResult, response |-> "none", read |-> NoRead,
   prior |-> NoPrior, obtained |-> NoResult, late |-> FALSE]

\* One scrape attempt: which scraper runs it (impl), the await it stands at
\* (pc), its argument (url), its browser and page handles, whether an error
\* is propagating (thrown) and how the returned promise settled (outcome).
\* graphqlPayload and graphqlResponse are the variables the route handler of
\* scrapeHotelViaGraphQL writes, availabilityData the array the response
\* listener of interceptGraphQLData pushes to, inflight the bodies of the
\* responses a handler is still awaiting, metadata the fields read from the
\* page, days the availabilityDays of the returned object.
\* History fields: navigated (page.goto resolved), responses (how many
\* data-API responses of the page's own traffic there were), hookFired (how
\* many of them the hook handled), source (where graphqlResponse comes
\* from), replay (how the manual replay went), tier (the tier the returned
\* list comes from), captured (the bodies the hook has parsed before the
\* list was chosen) and routed (how the last completed run of the route
\* handler resolved its request).
NoUrl == [absolute |-> FALSE, hostname |-> "", path |-> <<>>, highlighted_hotels |-> <<>>]
NoBody == [shape |-> "null", days |-> <<>>]
NoRequest == [method |-> "none", postData |-> "null"]
NoRoute == [request |-> NoRequest, thrownAt |-> "none", fulfilled |-> 0, continued |-> 0]

IdleAttempt ==
  [impl |-> "none", pc |-> "idle", url |-> NoUrl, browser |-> "null", page |-> "null",
   thrown |-> FALSE, outcome |-> "pending",
   graphqlPayload |-> FALSE, graphqlResponse |-> NoBody, availabilityData |-> <<>>,
   listening |-> FALSE, inflight |-> <<>>, metadata |-> {}, days |-> <<>>,
   returned |-> FALSE, navigated |-> FALSE, responses |-> 0, hookFired |-> 0,
   source |-> "none", replay |-> "none", tier |-> "none",
   captured |-> <<>>, routed |-> NoRoute]

\* One call of a function of utils.ts: its name, its argument, what it
\* returned.
NoCall == [fn |-> "none", arg |-> <<>>, pc |-> "idle", ret |-> Null]

Init ==
  /\ hotel = [h \in HotelIds |-> NoHotel]
  /\ nextId = 0
  /\ dailyPrice = {}
  /\ req = [p \in Reqs |-> IdleReq]
  /\ attempt = [a \in Attempts |-> IdleAttempt]
  /\ call = NoCall

Exists(h) == h \in HotelIds /\ hotel[h] # NoHotel

\* prisma.hotel.findUnique({ where: { bookingUrl } })
FindByUrl(url) == {h \in HotelIds : hotel[h] # NoHotel /\ hotel[h].bookingUrl = url}

\* Slots are interchangeable: slot p starts only after slot p-1 has.
CanStart(p) == req[p].pc = "idle" /\ \A q \in 1..(p - 1) : req[q].pc # "idle"

RowsOf(h) == {r \in dailyPrice : r.hotelId = h}

\* ------------------------------------------------------ database operations
\* data: { name: scrapedData.hotelName, externalHotelId: ..., amenities: ... }
UpdateData(rec, s) ==
  [rec EXCEPT !.name = s.hotelName, !.externalHotelId = s.hotelId,
              !.location = s.location, !.currency = s.currency,
              !.ratingOverall = s.ratingOverall,
              !.ratingLocation = s.ratingLocation, !.amenities = s.amenities]

\* scrapedData.dailyPrices.map(price => ({ hotelId, checkInDate, price, available }))
PriceData(h, s) ==
  [i \in 1..Len(s.dailyPrices) |->
     [hotelId |-> h,
      checkInDate |-> s.dailyPrices[i].checkInDate,
      price |-> s.dailyPrices[i].price,
      available |-> s.dailyPrices[i].available]]

\* "id" TEXT NOT NULL PRIMARY KEY: a stored row is the inserted data and an id
\* that tells it from the rows that agree with it in every other column.
Stored(data, n) ==
  [id |-> n, hotelId |-> data.hotelId, checkInDate |-> data.checkInDate,
   price |-> data.price, available |-> data.available]

Copies(table, data) ==
  Cardinality({r \in table : r = Stored(data, r.id)})

RECURSIVE Insert(_, _)
Insert(table, batch) ==
  IF batch = <<>> THEN table
  ELSE Insert(table \cup {Stored(Head(batch), Copies(table, Head(batch)) + 1)},
              Tail(batch))

\* The table without its unique index on (hotelId, checkInDate).
UniqueHotelDate_dropped(table, batch) == TRUE

\* CREATE UNIQUE INDEX "DailyPrice_hotelId_checkInDate_key"
UniqueHotelDate(table, batch) ==
  /\ \A i, j \in DOMAIN batch :
        (batch[i].hotelId = batch[j].hotelId
         /\ batch[i].checkInDate = batch[j].checkInDate) => i = j
  /\ \A i \in DOMAIN batch : \A r \in table :
        ~(r.hotelId = batch[i].hotelId /\ r.checkInDate = batch[i].checkInDate)

\* The table without its foreign key.
ForeignKeyOk_dropped(batch) == TRUE

\* CONSTRAINT "DailyPrice_hotelId_fkey" FOREIGN KEY ("hotelId") REFERENCES "Hotel"
ForeignKeyOk(batch) == \A i \in DOMAIN batch : Exists(batch[i].hotelId)

\* prisma.dailyPrice.createMany({ data }) is one INSERT: all rows or none.
CreateManyAccepted(batch) ==
  ForeignKeyOk(batch) /\ UniqueHotelDate(dailyPrice, batch)

\* The table without its unique index on bookingUrl.
UniqueBookingUrl_dropped(url) == TRUE

\* CREATE UNIQUE INDEX "Hotel_bookingUrl_key"
UniqueBookingUrl(url) == FindByUrl(url) = {}

\* ON DELETE CASCADE
CascadeDelete(table, h) == {r \in table : r.hotelId # h}

Missing(h) == h \in HotelIds /\ hotel[h] = NoHotel

Set(p, rec) ==
  req' = [req EXCEPT ![p] = [rec EXCEPT !.late = @ \/ Missing(req[p].hotelId)]]

\* A request that has ended keeps what it returned; its locals are gone.
End(rec) == [rec EXCEPT !.url = Null, !.scraped = NoResult, !.prior = NoPrior]

\* --------------------------------------------------------- Mutation.addHotel
\* const existingHotel = await prisma.hotel.findUnique({ where: { bookingUrl } })
addHotel_findUnique(p, url) ==
  /\ CanStart(p)
  /\ IF FindByUrl(url) # {}
       THEN Set(p, End([req[p] EXCEPT !.op = "addHotel", !.url = url, !.pc = "done",
                               !.hotelId = CHOOSE h \in FindByUrl(url) : TRUE,
                               !.response = "exists"]))
       ELSE Set(p, [req[p] EXCEPT !.op = "addHotel", !.url = url,
                               !.pc = "add_create"])
  /\ UNCHANGED <<hotel, nextId, dailyPrice, attempt, call>>

\* A registration that awaits the scrape and applies its result before it
\* answers.
addHotel_create_awaitsScrape(p) ==
  /\ req[p].pc = "add_create"
  /\ UniqueBookingUrl(req[p].url)
  /\ nextId < MaxHotels
  /\ nextId' = nextId + 1
  /\ \E s \in ScrapeResults :
       hotel' = [hotel EXCEPT ![nextId + 1] = UpdateData(NewHotel(req[p].url), s)]
  /\ Set(p, End([req[p] EXCEPT !.pc = "bg_applied", !.hotelId = nextId + 1,
                              !.response = "accepted"]))
  /\ UNCHANGED <<dailyPrice, attempt, call>>

\* const hotel = await prisma.hotel.create(...); then, without an await,
\* scrapeHotel(bookingUrl).then(...).catch(...) is started and the
\* acknowledgment is returned.  A rejected create goes to the outer catch.
addHotel_create(p) ==
  /\ req[p].pc = "add_create"
  /\ IF UniqueBookingUrl(req[p].url)
       THEN /\ nextId < MaxHotels
            /\ nextId' = nextId + 1
            /\ hotel' = [hotel EXCEPT ![nextId + 1] = NewHotel(req[p].url)]
            /\ Set(p, [req[p] EXCEPT !.pc = "bg_scraping", !.hotelId = nextId + 1,
                                    !.response = "accepted"])
       ELSE /\ Set(p, End([req[p] EXCEPT !.pc = "done", !.response = "error"]))
            /\ UNCHANGED <<hotel, nextId>>
  /\ UNCHANGED <<dailyPrice, attempt, call>>

\* scrapeHotel(bookingUrl) resolves with s and the .then handler runs to its
\* first await: await prisma.hotel.update({ where: { id: hotel.id }, data });
\* update of a missing record rejects.  if (dailyPrices.length > 0) createMany.
background_then(p, s) ==
  LET h == req[p].hotelId
  IN /\ req[p].pc = "bg_scraping"
     /\ IF Exists(h)
          THEN /\ hotel' = [hotel EXCEPT ![h] = UpdateData(hotel[h], s)]
               /\ IF Len(s.dailyPrices) > 0
                    THEN Set(p, [req[p] EXCEPT !.pc = "bg_createMany", !.scraped = s,
                                                !.obtained = s])
                    ELSE Set(p, End([req[p] EXCEPT !.pc = "bg_applied",
                                                    !.obtained = s]))
          ELSE /\ Set(p, [req[p] EXCEPT !.pc = "bg_catch", !.scraped = s])
               /\ UNCHANGED hotel
     /\ UNCHANGED <<nextId, dailyPrice, attempt, call>>

\* .then: await prisma.dailyPrice.createMany({ data: priceData }), no deleteMany before.
background_createMany(p) ==
  LET batch == PriceData(req[p].hotelId, req[p].scraped)
  IN /\ req[p].pc = "bg_createMany"
     /\ IF CreateManyAccepted(batch)
          THEN /\ dailyPrice' = Insert(dailyPrice, batch)
               /\ Set(p, End([req[p] EXCEPT !.pc = "bg_applied"]))
          ELSE /\ Set(p, [req[p] EXCEPT !.pc = "bg_catch"])
               /\ UNCHANGED dailyPrice
     /\ UNCHANGED <<hotel, nextId, attempt, call>>

\* An upsert in place of the update: it stores the marker as a new record
\* when the listing is missing.
MarkError_upsert(h) ==
  [hotel EXCEPT ![h] = IF Exists(h) THEN [@ EXCEPT !.name = ErrorName]
                       ELSE [NewHotel("u1") EXCEPT !.name = ErrorName]]

\* A .catch handler that only logs the error.
MarkError_logOnly(h) == hotel

\* data: { name: 'Error scraping hotel' }
MarkError(h) == IF Exists(h) THEN [hotel EXCEPT ![h].name = ErrorName] ELSE hotel

\* scrapeHotel(bookingUrl) rejects and the .catch handler runs:
\* await prisma.hotel.update({ where: { id: hotel.id }, data: { name: ... } })
background_reject(p) ==
  /\ req[p].pc = "bg_scraping"
  /\ hotel' = MarkError(req[p].hotelId)
  /\ Set(p, End([req[p] EXCEPT !.pc = "bg_caught"]))
  /\ UNCHANGED <<nextId, dailyPrice, attempt, call>>

\* A write of the .then handler was rejected and the same .catch handler runs.
background_catch(p) ==
  /\ req[p].pc = "bg_catch"
  /\ hotel' = MarkError(req[p].hotelId)
  /\ Set(p, End([req[p] EXCEPT !.pc = "bg_caught"]))
  /\ UNCHANGED <<nextId, dailyPrice, attempt, call>>

\* ------------------------------------------------------ Mutation.scrapeHotel
\* const hotel = await prisma.hotel.findUnique({ where: { id: hotelId } });
\* if (!hotel) return 'Hotel not found'; else scrapeHotel(hotel.bookingUrl) starts.
scrapeHotel_findUnique(p, h) ==
  /\ CanStart(p)
  /\ h \in 1..nextId
  /\ IF Exists(h)
       THEN Set(p, [req[p] EXCEPT !.op = "scrapeHotel", !.hotelId = h,
                               !.url = hotel[h].bookingUrl, !.pc = "rs_scraping"])
       ELSE Set(p, End([req[p] EXCEPT !.op = "scrapeHotel", !.hotelId = h,
                               !.pc = "done", !.response = "not found"]))
  /\ UNCHANGED <<hotel, nextId, dailyPrice, attempt, call>>

\* await scrapeHotel(hotel.bookingUrl) throws: catch returns the failed
\* outcome and writes nothing.
scrapeHotel_reject(p) ==
  /\ req[p].pc = "rs_scraping"
  /\ Set(p, End([req[p] EXCEPT !.pc = "done", !.response = "error"]))
  /\ UNCHANGED <<hotel, nextId, dailyPrice, attempt, call>>

\* await scrapeHotel(hotel.bookingUrl) returns s, then
\* const updatedHotel = await prisma.hotel.update({ where: { id: hotelId }, data });
\* with an empty day list the request returns success here.
scrapeHotel_update(p, s) ==
  LET h == req[p].hotelId
  IN /\ req[p].pc = "rs_scraping"
     /\ IF Exists(h)
          THEN /\ hotel' = [hotel EXCEPT ![h] = UpdateData(hotel[h], s)]
               /\ IF Len(s.dailyPrices) > 0
                    THEN Set(p, [req[p] EXCEPT !.pc = "rs_deleteMany", !.scraped = s,
                                   !.obtained = s,
                                   !.prior = [hotel |-> hotel[h], rows |-> RowsOf(h)]])
                    ELSE Set(p, End([req[p] EXCEPT !.pc = "done", !.response = "success"]))
          ELSE /\ Set(p, End([req[p] EXCEPT !.pc = "done", !.response = "error"]))
               /\ UNCHANGED hotel
     /\ UNCHANGED <<nextId, dailyPrice, attempt, call>>

\* A deleteMany without its where clause.
scrapeHotel_deleteMany_all(p) ==
  /\ req[p].pc = "rs_deleteMany"
  /\ dailyPrice' = {}
  /\ Set(p, [req[p] EXCEPT !.pc = "rs_createMany"])
  /\ UNCHANGED <<hotel, nextId, attempt, call>>

\* await prisma.dailyPrice.deleteMany({ where: { hotelId } })
scrapeHotel_deleteMany(p) ==
  /\ req[p].pc = "rs_deleteMany"
  /\ dailyPrice' = dailyPrice \ RowsOf(req[p].hotelId)
  /\ Set(p, [req[p] EXCEPT !.pc = "rs_createMany"])
  /\ UNCHANGED <<hotel, nextId, attempt, call>>

\* await prisma.dailyPrice.createMany({ data: priceData }); a rejection goes
\* to the catch, which returns the failed outcome.
scrapeHotel_createMany(p) ==
  LET batch == PriceData(req[p].hotelId, req[p].scraped)
  IN /\ req[p].pc = "rs_createMany"
     /\ IF CreateManyAccepted(batch)
          THEN /\ dailyPrice' = Insert(dailyPrice, batch)
               /\ Set(p, End([req[p] EXCEPT !.pc = "done", !.response = "success"]))
          ELSE /\ Set(p, End([req[p] EXCEPT !.pc = "done", !.response = "error"]))
               /\ UNCHANGED dailyPrice
     /\ UNCHANGED <<hotel, nextId, attempt, call>>

\* ------------------------------------------------------ Mutation.deleteHotel
\* await prisma.hotel.delete({ where: { id } }); return true;  a missing
\* record rejects and the error reaches the caller.
deleteHotel(p, h) ==
  /\ CanStart(p)
  /\ h \in 1..nextId
  /\ IF Exists(h)
       THEN /\ hotel' = [hotel EXCEPT ![h] = NoHotel]
            /\ dailyPrice' = CascadeDelete(dailyPrice, h)
            /\ Set(p, End([req[p] EXCEPT !.op = "deleteHotel", !.hotelId = h,
                                    !.pc = "done", !.response = "true"]))
       ELSE /\ Set(p, End([req[p] EXCEPT !.op = "deleteHotel", !.hotelId = h,
                                    !.pc = "done", !.response = "error"]))
            /\ UNCHANGED <<hotel, dailyPrice>>
  /\ UNCHANGED <<nextId, attempt, call>>

\* -------------------------------------------------------- Hotel.dailyPrices
\* orderBy: { checkInDate: 'asc' }
RECURSIVE OrderByCheckInDate(_)
OrderByCheckInDate(rows) ==
  IF rows = {} THEN <<>>
  ELSE LET first == CHOOSE r \in rows :
                      \A q \in rows : r.checkInDate <= q.checkInDate
       IN <<first>> \o OrderByCheckInDate(rows \ {first})

\* prisma.dailyPrice.findMany({ where: { hotelId, checkInDate: { gte, lte } } })
findMany(h, start, end) ==
  OrderByCheckInDate({r \in RowsOf(h) : start <= r.checkInDate /\ r.checkInDate <= end})

\* if (realPrices.length > 0) return realPrices; else the generated mock prices.
dailyPrices(p, h, start, end) ==
  LET realPrices == findMany(h, start, end)
  IN /\ CanStart(p)
     /\ h \in 1..nextId
     /\ Set(p, [req[p] EXCEPT !.op = "dailyPrices", !.hotelId = h, !.pc = "done",
                             !.read = IF Len(realPrices) > 0
                                        THEN [source |-> "database", rows |-> realPrices]
                                        ELSE [source |-> "mock", rows |-> <<>>]])
     /\ UNCHANGED <<hotel, nextId, dailyPrice, attempt, call>>

\* ------------------------------------------------------------------ numbers
\* A JavaScript Number is NaN or an IEEE 754 double.  A natural number of any
\* size is the sequence of its binary digits, least significant first; a
\* double is significand * 2^exp with an odd significand of at most
\* Precision bits (zero: the empty significand).
NaN == [nan |-> TRUE, sig |-> <<>>, exp |-> 0]
Precision == 53

RECURSIVE Bits(_)
Bits(n) == IF n = 0 THEN <<>> ELSE <<n % 2>> \o Bits(n \div 2)

\* without the zeros above the most significant one
Trim(bits) ==
  LET ones == {i \in DOMAIN bits : bits[i] = 1}
  IN IF ones = {} THEN <<>>
     ELSE SubSeq(bits, 1, CHOOSE i \in ones : \A j \in ones : j <= i)

\* The number made of the eight digits n..n+7 of bits.
Window(bits, n) ==
  LET b(i) == IF i \in DOMAIN bits THEN bits[i] ELSE 0
  IN b(n) + 2 * b(n + 1) + 4 * b(n + 2) + 8 * b(n + 3) + 16 * b(n + 4)
     + 32 * b(n + 5) + 64 * b(n + 6) + 128 * b(n + 7)

\* What is carried out of the low n binary digits of bits * c + carry.
RECURSIVE MulCarry(_, _, _, _)
MulCarry(bits, c, carry, n) ==
  IF n = 0 THEN carry
  ELSE IF n < 8 THEN (bits[n] * c + MulCarry(bits, c, carry, n - 1)) \div 2
  ELSE (Window(bits, n - 7) * c + MulCarry(bits, c, carry, n - 8)) \div 256

\* bits * c + carry, for small c and carry
MulSmall(bits, c, carry) ==
  LET carries == [n \in 0..Len(bits) |-> MulCarry(bits, c, carry, n)]
  IN Trim([n \in 1..Len(bits) |-> (bits[n] * c + carries[n - 1]) % 2]
          \o Bits(carries[Len(bits)]))

\* The remainder by a small d of the number made of the digits n.. of bits.
RECURSIVE DivRem(_, _, _)
DivRem(bits, d, n) ==
  IF n > Len(bits) THEN 0
  ELSE (256 * DivRem(bits, d, n + 8) + Window(bits, n)) % d

\* quotient and remainder of bits by a small d
DivSmall(bits, d) ==
  LET rems == [n \in 1..(Len(bits) + 1) |-> DivRem(bits, d, n)]
  IN [q |-> Trim([n \in 1..Len(bits) |-> (2 * rems[n + 1] + bits[n]) \div d]),
      r |-> rems[1]]

ShiftLeft(bits, n) == IF bits = <<>> THEN <<>> ELSE [i \in 1..n |-> 0] \o bits

\* bits + 1
Inc(bits) ==
  LET zeros == {i \in DOMAIN bits : bits[i] = 0}
      low == IF zeros = {} THEN Len(bits) + 1
             ELSE CHOOSE i \in zeros : \A j \in zeros : i <= j
  IN [i \in 1..(IF zeros = {} THEN Len(bits) + 1 ELSE Len(bits)) |->
        IF i < low THEN 0 ELSE IF i = low THEN 1 ELSE bits[i]]

\* significand * 2^exp with an odd significand
Canonical(sig, exp) ==
  LET ones == {i \in DOMAIN sig : sig[i] = 1}
      low == CHOOSE i \in ones : \A j \in ones : i <= j
  IN IF ones = {} THEN [nan |-> FALSE, sig |-> <<>>, exp |-> 0]
     ELSE [nan |-> FALSE, sig |-> SubSeq(sig, low, Len(sig)), exp |-> exp + low - 1]

Zero == Canonical(<<>>, 0)

\* The double nearest to (bits + f) * 2^exp, ties to even, where 0 <= f < 1
\* and sticky tells whether f > 0.
RoundToDouble(bits, sticky, exp) ==
  LET drop == Len(bits) - Precision
  IN IF drop <= 0 THEN Canonical(bits, exp)
     ELSE LET kept == SubSeq(bits, drop + 1, Len(bits))
              guard == bits[drop]
              rest == sticky \/ \E i \in 1..(drop - 1) : bits[i] = 1
              up == guard = 1 /\ (rest \/ Head(kept) = 1)
          IN Canonical(IF up THEN Inc(kept) ELSE kept, exp + drop)

RECURSIVE Pow10(_)
Pow10(k) == IF k = 0 THEN 1 ELSE 10 * Pow10(k - 1)

\* The double nearest to m / 10^k: the quotient of m * 2^s by 10^k has more
\* than Precision + 1 binary digits for s = Precision + 2 + 4k.
DecimalToDouble(m, k) ==
  LET s == Precision + 2 + 4 * k
      d == DivSmall(ShiftLeft(m, s), Pow10(k))
  IN IF m = <<>> THEN Zero ELSE RoundToDouble(d.q, d.r # 0, 0 - s)

\* x * c in double arithmetic, for a small natural c
Times(x, c) ==
  IF x = NaN THEN NaN ELSE RoundToDouble(MulSmall(x.sig, c, 0), FALSE, x.exp)

\* x || 0
OrZero(x) == IF x = NaN THEN Zero ELSE x

\* ------------------------------------------------------------------ strings
\* A string is the sequence of its characters.
Digit == <<"0", "1", "2", "3", "4", "5", "6", "7", "8", "9">>
IsDigit(c) == \E i \in DOMAIN Digit : Digit[i] = c
DigitValue(c) == (CHOOSE i \in DOMAIN Digit : Digit[i] = c) - 1

\* the decimal digits ds read as a natural number
RECURSIVE Natural(_)
Natural(ds) ==
  IF ds = <<>> THEN <<>>
  ELSE MulSmall(Natural(SubSeq(ds, 1, Len(ds) - 1)), 10, DigitValue(ds[Len(ds)]))

DigitPrefix(s) ==
  LET n == CHOOSE n \in 0..Len(s) :
             /\ \A i \in 1..n : IsDigit(s[i])
             /\ n = Len(s) \/ ~IsDigit(s[n + 1])
  IN SubSeq(s, 1, n)

\* parseFloat(s): the longest prefix that is a decimal literal
\* (digits, optionally a point and digits), NaN when there is none.
parseFloat(s) ==
  LET int == DigitPrefix(s)
      rest == SubSeq(s, Len(int) + 1, Len(s))
      frac == IF rest # <<>> /\ Head(rest) = "." THEN DigitPrefix(Tail(rest)) ELSE <<>>
  IN IF int = <<>> /\ frac = <<>> THEN NaN
     ELSE DecimalToDouble(Natural(int \o frac), Len(frac))

includes(s, c) == \E i \in DOMAIN s : s[i] = c

\* s.replace(c, ''): the first occurrence only
replace(s, c) ==
  IF ~includes(s, c) THEN s
  ELSE LET i == CHOOSE i \in DOMAIN s : s[i] = c /\ \A j \in 1..(i - 1) : s[j] # c
       IN SubSeq(s, 1, i - 1) \o SubSeq(s, i + 1, Len(s))

\* /[€$£¥\s]/g
CurrencyOrSpace == {"€", "$", "£", "¥", " "}

IsCurrencyOrSpace(c) == c \in CurrencyOrSpace

\* ------------------------------------------------- utils.ts: parsePrice
\* export function parsePrice(priceStr: string): number, and the backend's
\* parsePriceString, which has the same body.
parsePrice(priceStr) ==
  LET cleanPrice == SelectSeq(priceStr, LAMBDA c : ~IsCurrencyOrSpace(c))
  IN IF priceStr = <<>> THEN Zero
     ELSE IF includes(cleanPrice, "K") THEN Times(parseFloat(replace(cleanPrice, "K")), 1000)
     ELSE IF includes(cleanPrice, "M") THEN Times(parseFloat(replace(cleanPrice, "M")), 1000000)
     ELSE OrZero(parseFloat(cleanPrice))

\* ------------------------------------------------------------------- URLs
\* A path segment: the decimal digits it starts with, the text after them,
\* and whether ".html" follows.
Segment(digits, rest, html) == [digits |-> digits, rest |-> rest, html |-> html]

HotelSegment == Segment(<<>>, <<"h", "o", "t", "e", "l">>, FALSE)

\* A URL argument: whether the text is an absolute URL (new URL(url) does
\* not throw), its host name, the segments of its path, and the value of its
\* highlighted_hotels query parameter (empty: no such parameter, or no value).
\* The identifier a function returns is a string, empty for null.
Url(absolute, hostname, path, query) ==
  [absolute |-> absolute, hostname |-> hostname, path |-> path,
   highlighted_hotels |-> query]

\* pathSegments.findIndex(segment => segment === 'hotel'), 0 for -1
HotelIndex(path) ==
  LET found == {i \in DOMAIN path : path[i] = HotelSegment}
  IN IF found = {} THEN 0 ELSE CHOOSE i \in found : \A j \in found : i <= j

\* scraper.ts: function extractHotelIdFromUrl(url: string): string | null
extractHotelIdFromUrl(url) ==
  IF ~url.absolute THEN <<>>
  ELSE IF url.highlighted_hotels # <<>> THEN url.highlighted_hotels
  ELSE LET hotelIndex == HotelIndex(url.path)
       IN IF hotelIndex # 0 /\ hotelIndex + 2 <= Len(url.path)
            THEN LET hotelSegment == url.path[hotelIndex + 2]
                 IN hotelSegment.digits
            ELSE <<>>

\* url.match(/hotel\/([^\/]+)\/([^\/]+)\.html/): the places where the text
\* "hotel/", a segment, "/" and a segment that ends in ".html" follow each other.
HtmlMatches(path) ==
  {i \in DOMAIN path :
     /\ path[i].rest = HotelSegment.rest /\ ~path[i].html
     /\ i + 2 <= Len(path)
     /\ path[i + 2].html
     /\ path[i + 2].digits \o path[i + 2].rest # <<>>}

\* utils.ts: export function extractHotelId(url: string): string | null
extractHotelId(url) ==
  LET match == HtmlMatches(url.path)
      first == CHOOSE i \in match : \A j \in match : i <= j
  IN IF match # {} THEN url.path[first + 2].digits \o url.path[first + 2].rest
     ELSE IF url.absolute THEN url.highlighted_hotels
     ELSE <<>>

\* urlObj.pathname.includes('/hotel/')
IncludesHotel(path) == \E i \in DOMAIN path : path[i] = HotelSegment /\ i < Len(path)

\* export function isValidBookingUrl(url: string): boolean
isValidBookingUrl(url) ==
  IF ~url.absolute THEN FALSE
  ELSE url.hostname = "www.booking.com" /\ IncludesHotel(url.path)

\* ------------------------------------------------ calls of the utilities
\* The arguments: every string over PriceChars of at most MaxLen characters,
\* the price strings glyph, number, suffix with at most MaxDigits digits
\* before and after the point, and the examples of the documentation.
MaxLen == 3
MaxDigits == 2

PriceChars == {"€", " ", "1", "6", ".", "K", "M", "g"}
PriceDigits == {"1", "6"}

Strings(chars, n) == UNION {[1..k -> chars] : k \in 0..n}

Glyphs == {<<>>, <<"€">>}
Suffixes == {<<>>, <<"K">>, <<"M">>}

\* glyph, digits, an optional point and digits, suffix
PriceString(glyph, int, frac, suffix) ==
  glyph \o int \o (IF frac = <<>> THEN <<>> ELSE <<".">> \o frac) \o suffix

IntParts == Strings(PriceDigits, MaxDigits) \ {<<>>}
FracParts == Strings(PriceDigits, MaxDigits)

Examples ==
  {<<"€", "1", ".", "6", "K">>, <<"€", "1", "5", "0">>, <<>>,
   <<"g", "a", "r", "b", "a", "g", "e">>, <<"€", "1", ".", "2", "K">>}

PriceArgs ==
  Strings(PriceChars, MaxLen) \cup Examples
  \cup {PriceString(g, i, f, x) : g \in Glyphs, i \in IntParts, f \in FracParts,
                                  x \in Suffixes}

\* The URL arguments: absolute or not, two hosts, paths of at most
\* MaxSegments segments, with and without the query parameter.
MaxSegments == 3

Segments ==
  {HotelSegment, Segment(<<>>, <<"f", "r">>, FALSE),
   Segment(<<"1", "2">>, <<"a">>, TRUE), Segment(<<>>, <<"a">>, TRUE),
   Segment(<<"1", "2">>, <<"a">>, FALSE)}

UrlArgs ==
  {Url(abs, host, path, query) :
     abs \in BOOLEAN, host \in {"www.booking.com", "www.example.com"},
     path \in Strings(Segments, MaxSegments), query \in {<<>>, <<"4", "2">>}}

Called(fn, arg) == [fn |-> fn, arg |-> arg, pc |-> "called", ret |-> Null]

InitUtils ==
  /\ hotel = [h \in HotelIds |-> NoHotel]
  /\ nextId = 0
  /\ dailyPrice = {}
  /\ req = [p \in Reqs |-> IdleReq]
  /\ attempt = [a \in Attempts |-> IdleAttempt]
  /\ call \in {Called("parsePrice", s) : s \in PriceArgs}
         \cup {Called(fn, u) : fn \in {"extractHotelIdFromUrl", "extractHotelId",
                                       "isValidBookingUrl"}, u \in UrlArgs}

Return(value) == call' = [call EXCEPT !.pc = "returned", !.ret = value]

parsePrice_return ==
  /\ call.fn = "parsePrice" /\ call.pc = "called"
  /\ Return(parsePrice(call.arg))
  /\ UNCHANGED <<hotel, nextId, dailyPrice, req, attempt>>

extractHotelIdFromUrl_return ==
  /\ call.fn = "extractHotelIdFromUrl" /\ call.pc = "called"
  /\ Return(extractHotelIdFromUrl(call.arg))
  /\ UNCHANGED <<hotel, nextId, dailyPrice, req, attempt>>

extractHotelId_return ==
  /\ call.fn = "extractHotelId" /\ call.pc = "called"
  /\ Return(extractHotelId(call.arg))
  /\ UNCHANGED <<hotel, nextId, dailyPrice, req, attempt>>

isValidBookingUrl_return ==
  /\ call.fn = "isValidBookingUrl" /\ call.pc = "called"
  /\ Return(isValidBookingUrl(call.arg))
  /\ UNCHANGED <<hotel, nextId, dailyPrice, req, attempt>>

NextUtils ==
  \/ parsePrice_return
  \/ extractHotelIdFromUrl_return
  \/ extractHotelId_return
  \/ isValidBookingUrl_return

SpecUtils == InitUtils /\ [][NextUtils]_vars

\* ------------------------------------------------ data-API response bodies
\* The body of a response on /dml/graphql: text that is not JSON, JSON
\* without data.availabilityCalendar.days, JSON whose days member is not a
\* list, or a calendar payload.  NoBody stands for null: no response.
Day(checkin, avgPriceFormatted, available, minLengthOfStay) ==
  [checkin |-> checkin, avgPriceFormatted |-> avgPriceFormatted,
   available |-> available, minLengthOfStay |-> minLengthOfStay]

\* The response example of the documentation; minLengthOfStay 0: not given.
ExampleDays ==
  <<Day("2024-01-01", <<"€", "1", "5", "0">>, TRUE, 0),
    Day("2024-01-02", <<"€", "1", ".", "2", "K">>, FALSE, 2)>>

Payloads == {<<>>, <<ExampleDays[2]>>, ExampleDays}

Calendar(days) == [shape |-> "calendar", days |-> days]
NotJson == [shape |-> "notJson", days |-> <<>>]
NoCalendar == [shape |-> "noCalendar", days |-> <<>>]
DaysNotList == [shape |-> "daysNotList", days |-> <<>>]

Bodies == {NotJson, NoCalendar, DaysNotList} \cup {Calendar(p) : p \in Payloads}

\* JSON.parse(responseBody) / response.json() does not throw
IsJson(body) == body.shape \in {"noCalendar", "daysNotList", "calendar"}

\* interface AvailabilityDay
AvailabilityDay(checkin, price, available, minLengthOfStay) ==
  [checkin |-> checkin, price |-> price, available |-> available,
   minLengthOfStay |-> minLengthOfStay]

\* for (const day of graphqlResponse.data.availabilityCalendar.days)
\*   availabilityDays.push({ ..., price: parsePriceString(day.avgPriceFormatted), ... })
RECURSIVE PushDays_skipping(_, _)
PushDays_skipping(availabilityDays, days) ==
  IF days = <<>> THEN availabilityDays
  ELSE LET day == Head(days)
       IN PushDays_skipping(
            IF day.available
              THEN Append(availabilityDays,
                          AvailabilityDay(day.checkin, parsePrice(day.avgPriceFormatted),
                                          day.available, day.minLengthOfStay))
              ELSE availabilityDays,
            Tail(days))

RECURSIVE PushDays(_, _)
PushDays(availabilityDays, days) ==
  IF days = <<>> THEN availabilityDays
  ELSE LET day == Head(days)
       IN PushDays(Append(availabilityDays,
                          AvailabilityDay(day.checkin, parsePrice(day.avgPriceFormatted),
                                          day.available, day.minLengthOfStay)),
                   Tail(days))

\* The listener's loop: parsePrice(day.avgPriceFormatted || '0'),
\* day.available || false
RECURSIVE PushResponseDays(_, _)
PushResponseDays(availabilityData, days) ==
  IF days = <<>> THEN availabilityData
  ELSE LET day == Head(days)
           priceStr == IF day.avgPriceFormatted = <<>> THEN <<"0">>
                       ELSE day.avgPriceFormatted
       IN PushResponseDays(Append(availabilityData,
                                  AvailabilityDay(day.checkin, parsePrice(priceStr),
                                                  day.available, day.minLengthOfStay)),
                           Tail(days))

\* A calendar-day element of the page: its data-date attribute, the text of
\* its price sub-element (empty: none) and whether its class has "disabled".
CalendarDay(date, priceText, disabled) ==
  [date |-> date, priceText |-> priceText, disabled |-> disabled]

\* The elements extractFromDOM has read when it returns: none, or one with a
\* price and one without.
DomLists ==
  {<<>>, <<CalendarDay("2024-01-03", <<"€", "1", "5", "0">>, FALSE),
           CalendarDay("2024-01-04", <<>>, TRUE)>>}

\* for (const dayElement of calendarDays) ... if (dateAttr && priceText) push
RECURSIVE PushCalendarDays(_, _)
PushCalendarDays(availabilityData, calendarDays) ==
  IF calendarDays = <<>> THEN availabilityData
  ELSE LET dayElement == Head(calendarDays)
       IN PushCalendarDays(
            IF dayElement.date # "" /\ dayElement.priceText # <<>>
              THEN Append(availabilityData,
                          AvailabilityDay(dayElement.date, parsePrice(dayElement.priceText),
                                          ~dayElement.disabled, 0))
              ELSE availabilityData,
            Tail(calendarDays))

\* ------------------------------------------------------- one scrape attempt
\* scrapeHotelViaGraphQL ("graphql") and the scraper package's scrapeHotel
\* ("package").  Every await of the try block may throw; ok tells whether it
\* did not.
Impls == {"graphql", "package"}

\* How many data-API requests the page itself issues during one attempt.
MaxResponses == 2

\* The URLs an attempt is started with: a listing with a numeric prefix in
\* its slug, a listing without, and the first on another host.
ScrapeUrls ==
  LET fr == Segment(<<>>, <<"f", "r">>, FALSE)
      numbered == Segment(<<"1", "2">>, <<"a">>, TRUE)
      named == Segment(<<>>, <<"a">>, TRUE)
  IN {Url(TRUE, "www.booking.com", <<HotelSegment, fr, numbered>>, <<>>),
      Url(TRUE, "www.booking.com", <<HotelSegment, fr, named>>, <<>>),
      Url(TRUE, "www.example.com", <<HotelSegment, fr, numbered>>, <<>>)}

\* The fields extractHotelMetadata can find on a page.
MetadataFields == {"name", "location"}

storeVars == <<hotel, nextId, dailyPrice, req, call>>

Put(a, rec) == attempt' = [attempt EXCEPT ![a] = rec]

\* catch (error) { ...; throw ... } finally { ... }
Throw(rec) == [rec EXCEPT !.thrown = TRUE, !.pc = "finally"]

\* part_003 317-344: the parse loop over graphqlResponse and the return;
\* a days member that is not iterable makes the for...of throw.
ParseAndReturn(rec) ==
  IF rec.graphqlResponse.shape = "daysNotList" THEN Throw(rec)
  ELSE LET availabilityDays == PushDays(<<>>, rec.graphqlResponse.days)
       IN [rec EXCEPT !.days = availabilityDays,
                      !.tier = IF availabilityDays = <<>> THEN "none" ELSE rec.source,
                      !.returned = TRUE, !.pc = "finally"]

\* if (!isValidBookingUrl(hotelUrl)) throw ..., before the try block; the
\* package's scrapeHotel does not validate.
attempt_start(a, impl, url) ==
  /\ attempt[a].pc = "idle"
  /\ \A b \in 1..(a - 1) : attempt[b].pc # "idle"
  /\ IF impl = "graphql" /\ ~isValidBookingUrl(url)
       THEN Put(a, [attempt[a] EXCEPT !.impl = impl, !.url = url, !.pc = "ended",
                                      !.outcome = "rejected"])
       ELSE Put(a, [attempt[a] EXCEPT !.impl = impl, !.url = url, !.pc = "launch"])
  /\ UNCHANGED storeVars

\* browser = await chromium.launch({ headless })
attempt_launch(a, ok) ==
  /\ attempt[a].pc = "launch"
  /\ IF ok THEN Put(a, [attempt[a] EXCEPT !.browser = "open", !.pc = "newContext"])
           ELSE Put(a, Throw(attempt[a]))
  /\ UNCHANGED storeVars

\* const context = await browser.newContext(...)
attempt_newContext(a, ok) ==
  /\ attempt[a].pc = "newContext"
  /\ IF ok THEN Put(a, [attempt[a] EXCEPT !.pc = "newPage"])
           ELSE Put(a, Throw(attempt[a]))
  /\ UNCHANGED storeVars

\* page = await context.newPage()
attempt_newPage(a, ok) ==
  /\ attempt[a].pc = "newPage"
  /\ IF ok THEN Put(a, [attempt[a] EXCEPT !.page = "open",
                           !.pc = IF attempt[a].impl = "graphql" THEN "route" ELSE "goto"])
           ELSE Put(a, Throw(attempt[a]))
  /\ UNCHANGED storeVars

\* await page.route('**/dml/graphql', ...)
attempt_route(a, ok) ==
  /\ attempt[a].pc = "route"
  /\ IF ok THEN Put(a, [attempt[a] EXCEPT !.listening = TRUE, !.pc = "goto"])
           ELSE Put(a, Throw(attempt[a]))
  /\ UNCHANGED storeVars

\* await page.goto(url, { waitUntil: 'networkidle' }): navigation error or timeout
attempt_goto(a, ok) ==
  /\ attempt[a].pc = "goto"
  /\ IF ok THEN Put(a, [attempt[a] EXCEPT !.navigated = TRUE, !.pc = "metadata"])
           ELSE Put(a, Throw(attempt[a]))
  /\ UNCHANGED storeVars

\* A request of the page on /dml/graphql: its method, and whether its post
\* data is missing, not JSON, a query of another operation or an
\* availability-calendar query.
Request(method, postData) == [method |-> method, postData |-> postData]

Requests ==
  {Request("GET", "null")}
  \cup {Request("POST", d) : d \in {"null", "notJson", "other", "calendar"}}

CalendarQuery == Request("POST", "calendar")

\* request.method() === 'POST', postData parses, and operationName or query
\* names the availability calendar
IsCalendarQuery(request) == request.method = "POST" /\ request.postData = "calendar"

\* A handler whose fulfil branch falls through to route.continue().
Resolve_noReturn(request, thrownAt) ==
  [request |-> request, thrownAt |-> thrownAt,
   fulfilled |-> IF IsCalendarQuery(request) /\ thrownAt = "none" THEN 1 ELSE 0,
   continued |-> 1]

\* One run of the route handler: thrownAt names the await that threw
\* (route.fetch or response.text: "fetch", route.fulfill: "fulfill", or
\* "none").  fulfilled and continued count the calls of route.fulfill and
\* route.continue that took effect: after a fulfil that resolved the handler
\* returns, on every other path it reaches await route.continue().
Resolve(request, thrownAt) ==
  LET returned == IsCalendarQuery(request) /\ thrownAt = "none"
  IN [request |-> request, thrownAt |-> thrownAt,
      fulfilled |-> IF returned THEN 1 ELSE 0,
      continued |-> IF returned THEN 0 ELSE 1]

\* A request of the page that the handler does not capture: it runs to
\* await route.continue().
route_handler_continue(a, request) ==
  /\ attempt[a].impl = "graphql"
  /\ attempt[a].listening /\ attempt[a].page = "open"
  /\ attempt[a].pc \in {"goto", "metadata", "evaluate"}
  /\ attempt[a].responses < MaxResponses
  /\ ~IsCalendarQuery(request)
  /\ Put(a, [attempt[a] EXCEPT !.responses = @ + 1, !.hookFired = @ + 1,
                               !.routed = Resolve(request, "none")])
  /\ UNCHANGED storeVars

\* The page posts an availability-calendar query to /dml/graphql and the
\* route handler runs up to await route.fetch(): graphqlPayload = payload.
\* body is what the upstream will answer.  Requests of the page after the
\* attempt has built its list change nothing it returns and are left out.
route_handler(a, body) ==
  /\ attempt[a].impl = "graphql"
  /\ attempt[a].listening /\ attempt[a].page = "open"
  /\ attempt[a].pc \in {"goto", "metadata", "evaluate"}
  /\ attempt[a].responses < MaxResponses
  /\ Put(a, [attempt[a] EXCEPT !.graphqlPayload = TRUE,
                               !.inflight = Append(@, body),
                               !.responses = @ + 1, !.hookFired = @ + 1])
  /\ UNCHANGED storeVars

Remove(seq, i) == SubSeq(seq, 1, i - 1) \o SubSeq(seq, i + 1, Len(seq))

\* The list of the attempt has not been chosen yet.
Choosing(rec) == ~rec.returned /\ ~rec.thrown

\* The handler resumes after route.fetch() and response.text():
\* try { graphqlResponse = JSON.parse(responseBody) } catch {}, route.fulfill
\* and return; an await that throws leads to the outer catch and to
\* route.continue().
route_handler_fetched(a, i, thrownAt) ==
  /\ attempt[a].impl = "graphql"
  /\ attempt[a].page = "open"
  /\ i \in DOMAIN attempt[a].inflight
  /\ LET body == attempt[a].inflight[i]
         parsed == thrownAt # "fetch" /\ IsJson(body)
     IN Put(a, [attempt[a] EXCEPT
          !.inflight = Remove(@, i),
          !.graphqlResponse = IF parsed THEN body ELSE @,
          !.source = IF parsed THEN "intercept" ELSE @,
          !.captured = IF parsed /\ Choosing(attempt[a]) THEN Append(@, body) ELSE @,
          !.routed = Resolve(CalendarQuery, thrownAt)])
  /\ UNCHANGED storeVars

\* await extractHotelMetadata(page): read is the set of fields found.  The
\* backend's has a try/catch around all of it and goes on to the replay
\* decision (part_003 259-315); the package's awaits textContent() of name
\* and location outside one, and goes on to extractAvailabilityData, which
\* registers the response listener and waits.
attempt_metadata(a, read, ok) ==
  /\ attempt[a].pc = "metadata"
  /\ LET rec == [attempt[a] EXCEPT !.metadata = read]
         hotelId == extractHotelIdFromUrl(rec.url)
     IN IF rec.impl = "graphql"
          THEN IF (~rec.graphqlPayload \/ rec.graphqlResponse = NoBody) /\ hotelId # <<>>
                 THEN Put(a, [rec EXCEPT !.pc = "evaluate"])
                 ELSE Put(a, ParseAndReturn(rec))
          ELSE IF ok
                 THEN Put(a, [rec EXCEPT !.listening = TRUE, !.pc = "wait"])
                 ELSE Put(a, Throw(attempt[a]))
  /\ UNCHANGED storeVars

\* What the in-page fetch of the replay gets: a response (ok or not) with a
\* body, or no response at all.  A response that is not ok carries no
\* calendar.
Replies ==
  {[ok |-> TRUE, body |-> b] : b \in Bodies}
  \cup {[ok |-> FALSE, body |-> b] : b \in {NoBody, NotJson, NoCalendar}}

\* const manualResponse = await page.evaluate(...): the evaluation rejects,
\* or the fetch inside it gets reply.  The fetch is a POST to /dml/graphql
\* that names AvailabilityCalendarQuery, so it passes through the route
\* handler, which stores its payload and its parsed body before the page
\* sees the response.  Then if (manualResponse) graphqlResponse =
\* manualResponse, the parse loop and the return.
attempt_evaluate(a, rejects, reply) ==
  /\ attempt[a].pc = "evaluate"
  /\ IF rejects
       THEN Put(a, Throw([attempt[a] EXCEPT !.replay = "rejected"]))
       ELSE LET manualResponse == IF reply.ok /\ IsJson(reply.body) THEN reply.body
                                  ELSE NoBody
                replaced == IsJson(reply.body)
                rec == [attempt[a] EXCEPT
                          !.graphqlPayload = TRUE,
                          !.graphqlResponse = IF replaced THEN reply.body ELSE @,
                          !.source = IF replaced THEN "replay" ELSE @,
                          !.replay = IF manualResponse = NoBody THEN "failed"
                                     ELSE "answered",
                          !.routed = Resolve(CalendarQuery,
                                             IF reply.body = NoBody THEN "fetch"
                                             ELSE "none")]
            IN Put(a, ParseAndReturn(rec))
  /\ UNCHANGED storeVars

\* A response on /dml/graphql arrives in the page: if the listener of
\* interceptGraphQLData is registered it runs up to await response.json().
page_response(a, body) ==
  /\ attempt[a].impl = "package"
  /\ attempt[a].page = "open"
  /\ attempt[a].pc \in {"goto", "metadata", "wait", "dom", "finally"}
  /\ attempt[a].responses < MaxResponses
  /\ IF attempt[a].listening
       THEN Put(a, [attempt[a] EXCEPT !.inflight = Append(@, body),
                                      !.responses = @ + 1, !.hookFired = @ + 1])
       ELSE Put(a, [attempt[a] EXCEPT !.responses = @ + 1])
  /\ UNCHANGED storeVars

\* The listener resumes after response.json(): it pushes the days of a
\* calendar to availabilityData; every error is caught.  The array the
\* interceptor returned is the one the listener goes on pushing to.
response_json(a, i) ==
  /\ attempt[a].impl = "package"
  /\ attempt[a].page = "open"
  /\ i \in DOMAIN attempt[a].inflight
  /\ LET body == attempt[a].inflight[i]
         availabilityData == PushResponseDays(attempt[a].availabilityData, body.days)
     IN Put(a, [attempt[a] EXCEPT
          !.inflight = Remove(@, i),
          !.availabilityData = availabilityData,
          !.days = IF attempt[a].returned /\ attempt[a].tier = "intercept"
                     THEN availabilityData ELSE @,
          !.captured = IF IsJson(body) /\ attempt[a].pc = "wait" THEN Append(@, body) ELSE @])
  /\ UNCHANGED storeVars

\* await page.waitForTimeout(5000), then extractAvailabilityData: the
\* interceptor's list if it is not empty, else extractFromDOM; a rejected
\* wait is caught and gives [].
attempt_wait(a, ok) ==
  /\ attempt[a].pc = "wait"
  /\ IF ~ok
       THEN Put(a, [attempt[a] EXCEPT !.days = <<>>, !.returned = TRUE, !.pc = "finally"])
       ELSE IF Len(attempt[a].availabilityData) > 0
         THEN Put(a, [attempt[a] EXCEPT !.days = attempt[a].availabilityData,
                                        !.tier = "intercept",
                                        !.returned = TRUE, !.pc = "finally"])
         ELSE Put(a, [attempt[a] EXCEPT !.pc = "dom"])
  /\ UNCHANGED storeVars

\* extractFromDOM: calendarDays are the elements read before the loop ended
\* or threw; its own try/catch returns what was pushed.
attempt_dom(a, calendarDays) ==
  /\ attempt[a].pc = "dom"
  /\ LET availabilityData == PushCalendarDays(<<>>, calendarDays)
     IN Put(a, [attempt[a] EXCEPT
          !.days = availabilityData,
          !.tier = IF availabilityData = <<>> THEN "none" ELSE "dom",
          !.returned = TRUE, !.pc = "finally"])
  /\ UNCHANGED storeVars

\* finally { if (page) await page.close(); ... }: a rejected close leaves the
\* finally block at once.
attempt_pageClose(a, ok) ==
  /\ attempt[a].pc = "finally"
  /\ attempt[a].impl = "graphql"
  /\ attempt[a].page # "null"
  /\ IF ok THEN Put(a, [attempt[a] EXCEPT !.page = "closed", !.pc = "browserClose"])
           ELSE Put(a, [attempt[a] EXCEPT !.thrown = TRUE, !.pc = "ended",
                                          !.outcome = "rejected"])
  /\ UNCHANGED storeVars

\* finally { ...; if (browser) await browser.close(); }: closing the browser
\* closes its pages.
attempt_browserClose(a) ==
  /\ \/ attempt[a].pc = "browserClose"
     \/ /\ attempt[a].pc = "finally"
        /\ (attempt[a].impl = "package" \/ attempt[a].page = "null")
  /\ Put(a, [attempt[a] EXCEPT
        !.browser = IF @ = "open" THEN "closed" ELSE @,
        !.page = IF @ = "open" /\ attempt[a].browser = "open" THEN "closed" ELSE @,
        !.pc = "ended",
        !.outcome = IF attempt[a].thrown THEN "rejected" ELSE "resolved"])
  /\ UNCHANGED storeVars

\* ------------------------------------------------------------ specification
Next ==
  \/ \E p \in Reqs, url \in Urls : addHotel_findUnique(p, url)
  \/ \E p \in Reqs : addHotel_create(p)
  \/ \E p \in Reqs, s \in ScrapeResults : background_then(p, s)
  \/ \E p \in Reqs : background_reject(p)
  \/ \E p \in Reqs : background_createMany(p)
  \/ \E p \in Reqs : background_catch(p)
  \/ \E p \in Reqs, h \in HotelIds : scrapeHotel_findUnique(p, h)
  \/ \E p \in Reqs : scrapeHotel_reject(p)
  \/ \E p \in Reqs, s \in ScrapeResults : scrapeHotel_update(p, s)
  \/ \E p \in Reqs : scrapeHotel_deleteMany(p)
  \/ \E p \in Reqs : scrapeHotel_createMany(p)
  \/ \E p \in Reqs, h \in HotelIds : deleteHotel(p, h)
  \/ \E p \in Reqs, h \in HotelIds, start \in Dates, end \in Dates :
        dailyPrices(p, h, start, end)

Spec == Init /\ [][Next]_vars

\* The background task of a registration makes progress: the scraper call
\* settles, and the database answers each write of the .then and .catch
\* handlers, whose continuations the event loop then runs.
BackgroundFairness ==
  \A p \in Reqs :
    /\ WF_vars((\E s \in ScrapeResults : background_then(p, s)) \/ background_reject(p))
    /\ WF_vars(background_createMany(p))
    /\ WF_vars(background_catch(p))

\* Registrations, their background scrapes and deletions.
NextBackground ==
  \/ \E p \in Reqs, url \in Urls : addHotel_findUnique(p, url)
  \/ \E p \in Reqs : addHotel_create(p)
  \/ \E p \in Reqs, s \in ScrapeResults : background_then(p, s)
  \/ \E p \in Reqs : background_reject(p)
  \/ \E p \in Reqs : background_createMany(p)
  \/ \E p \in Reqs : background_catch(p)
  \/ \E p \in Reqs, h \in HotelIds : deleteHotel(p, h)

SpecBackground == Init /\ [][NextBackground]_vars /\ BackgroundFairness

\* Rescrape requests for two stored listings: both have been registered and
\* their background scrapes have stored a name and price rows.
NumRescrapes == 2
Rescrapes == 1..NumRescrapes

FirstScrape == ScrapedHotelData(1, <<1, 2>>)

InitListings ==
  /\ hotel = [h \in HotelIds |->
               IF h = 1 THEN UpdateData(NewHotel("u1"), FirstScrape)
               ELSE IF h = 2 THEN UpdateData(NewHotel("u2"), FirstScrape)
               ELSE NoHotel]
  /\ nextId = 2
  /\ dailyPrice = Insert({}, PriceData(1, FirstScrape) \o PriceData(2, FirstScrape))
  /\ req = [p \in Reqs |-> IdleReq]
  /\ attempt = [a \in Attempts |-> IdleAttempt]
  /\ call = NoCall

NextListings ==
  \/ \E p \in Rescrapes, h \in HotelIds : scrapeHotel_findUnique(p, h)
  \/ \E p \in Rescrapes : scrapeHotel_reject(p)
  \/ \E p \in Rescrapes, s \in ScrapeResults : scrapeHotel_update(p, s)
  \/ \E p \in Rescrapes : scrapeHotel_deleteMany(p)
  \/ \E p \in Rescrapes : scrapeHotel_createMany(p)

SpecListings == InitListings /\ [][NextListings]_vars

NextScraper ==
  \/ \E a \in Attempts, impl \in Impls, url \in ScrapeUrls : attempt_start(a, impl, url)
  \/ \E a \in Attempts, ok \in BOOLEAN : attempt_launch(a, ok)
  \/ \E a \in Attempts, ok \in BOOLEAN : attempt_newContext(a, ok)
  \/ \E a \in Attempts, ok \in BOOLEAN : attempt_newPage(a, ok)
  \/ \E a \in Attempts, ok \in BOOLEAN : attempt_route(a, ok)
  \/ \E a \in Attempts, ok \in BOOLEAN : attempt_goto(a, ok)
  \/ \E a \in Attempts, body \in Bodies : route_handler(a, body)
  \/ \E a \in Attempts, request \in Requests : route_handler_continue(a, request)
  \/ \E a \in Attempts, i \in 1..MaxResponses, thrownAt \in {"fetch", "fulfill", "none"} :
       route_handler_fetched(a, i, thrownAt)
  \/ \E a \in Attempts, read \in SUBSET MetadataFields, ok \in BOOLEAN :
       attempt_metadata(a, read, ok)
  \/ \E a \in Attempts, rejects \in BOOLEAN, reply \in Replies :
       attempt_evaluate(a, rejects, reply)
  \/ \E a \in Attempts, body \in Bodies : page_response(a, body)
  \/ \E a \in Attempts, i \in 1..MaxResponses : response_json(a, i)
  \/ \E a \in Attempts, ok \in BOOLEAN : attempt_wait(a, ok)
  \/ \E a \in Attempts, calendarDays \in DomLists : attempt_dom(a, calendarDays)
  \/ \E a \in Attempts, ok \in BOOLEAN : attempt_pageClose(a, ok)
  \/ \E a \in Attempts : attempt_browserClose(a)

SpecScraper == Init /\ [][NextScraper]_vars

\* ------------------------------------------------------------------ claims
\* The columns of stored rows without their ids.
Data(rows) ==
  {[hotelId |-> r.hotelId, checkInDate |-> r.checkInDate, price |-> r.price,
    available |-> r.available] : r \in rows}

MinDate == CHOOSE d \in Dates : \A e \in Dates : d <= e
MaxDate == CHOOSE d \in Dates : \A e \in Dates : d >= e

\* C1: the step that handles a failed scrape attempt (the .catch of the
\* background scrape, the catch of the rescrape request) leaves a stored name,
\* the ratings and the price rows of the listing as they were.
C1_FailedScrapeKeepsStoredData ==
  [][\A p \in Reqs :
       LET h == req[p].hotelId
       IN ((background_reject(p) \/ scrapeHotel_reject(p))
           /\ Exists(h) /\ hotel[h].name # Null)
          => /\ hotel'[h].name = hotel[h].name
             /\ hotel'[h].ratingOverall = hotel[h].ratingOverall
             /\ hotel'[h].ratingLocation = hotel[h].ratingLocation
             /\ RowsOf(h)' = RowsOf(h)]_vars

\* C2: when a rescrape request that replaces the price rows ends, the stored
\* rows of the listing are the complete prior set or the complete scraped
\* set; a rejected insert leaves the prior rows in place.
C2_ReplacementAllOrNothing ==
  [][\A p \in Reqs :
       LET h == req[p].hotelId
       IN (scrapeHotel_createMany(p) /\ Exists(h))
          => \/ Data(RowsOf(h))' = Data(req[p].prior.rows)
             \/ /\ req'[p].response = "success"
                /\ Data(RowsOf(h))' = Data(Insert({}, PriceData(h, req[p].scraped)))]_vars

\* C3: Hotel.dailyPrices, run between the deleteMany and the createMany of a
\* rescrape of a listing that had rows in the requested range, returns
\* stored rows (it does not find zero rows).
C3_ReaderNeverSeesZeroRows ==
  [][\A p \in Reqs, h \in HotelIds, start \in Dates, end \in Dates :
       (/\ dailyPrices(p, h, start, end)
        /\ Exists(h)
        /\ \E q \in Reqs :
              /\ req[q].pc = "rs_createMany"
              /\ req[q].hotelId = h
              /\ \E r \in req[q].prior.rows :
                    start <= r.checkInDate /\ r.checkInDate <= end)
       => req'[p].read.source = "database"]_vars

\* C4: at most one stored price row per (listing, check-in date).
C4_OneRowPerListingAndDate ==
  \A r1, r2 \in dailyPrice :
    (r1.hotelId = r2.hotelId /\ r1.checkInDate = r2.checkInDate) => r1 = r2

\* C4 witness: rows of a listing are stored and the price insert of its
\* background scrape has been rejected.
C4_Witness ==
  \E p \in Reqs :
    /\ req[p].pc = "bg_catch"
    /\ Exists(req[p].hotelId)
    /\ Len(req[p].scraped.dailyPrices) > 0
    /\ RowsOf(req[p].hotelId) # {}

\* The step in which request p ends having applied the scrape result s and
\* reports success: the background .then handler, or the rescrape request.
CompletesScrape(p, s) ==
  \/ background_then(p, s) /\ req'[p].pc = "bg_applied"
  \/ background_createMany(p) /\ req[p].scraped = s /\ req'[p].pc = "bg_applied"
  \/ scrapeHotel_update(p, s) /\ req'[p].response = "success"
  \/ scrapeHotel_createMany(p) /\ req[p].scraped = s /\ req'[p].response = "success"

\* What findMany returned, without the ids.
Columns(rows) ==
  [i \in DOMAIN rows |->
     [hotelId |-> rows[i].hotelId, checkInDate |-> rows[i].checkInDate,
      price |-> rows[i].price, available |-> rows[i].available]]

\* C5: when a successful scrape has been applied, reading the listing's price
\* rows back gives one row per distinct check-in date of that scrape, with
\* its price and availability, and no row of an earlier scrape.
C5_ReadBackMatchesLatestScrape ==
  [][\A p \in Reqs, s \in ScrapeResults :
       LET h == req[p].hotelId
       IN CompletesScrape(p, s)
          => Columns(findMany(h, MinDate, MaxDate))' =
               OrderByCheckInDate(Data(Insert({}, PriceData(h, s))))]_vars

\* C6: after a successful scrape has been applied, the stored price set of
\* the listing is exactly the set of that scrape: no prior row is left, also
\* for an empty day list and for the background scrape.
C6_StoredSetIsScrapedSet ==
  [][\A p \in Reqs, s \in ScrapeResults :
       LET h == req[p].hotelId
       IN CompletesScrape(p, s)
          => Data(RowsOf(h))' = {PriceData(h, s)[i] : i \in DOMAIN s.dailyPrices}]_vars

\* C7: the step that handles a failed scrape attempt of an existing listing
\* leaves the listing with the error marker in its name, and its price rows
\* unchanged.
C7_FailedScrapeMarksListing ==
  [][\A p \in Reqs :
       LET h == req[p].hotelId
       IN ((background_reject(p) \/ scrapeHotel_reject(p)) /\ Exists(h))
          => /\ hotel'[h].name = ErrorName
             /\ RowsOf(h)' = RowsOf(h)]_vars

\* C8: a rescrape request whose price insert is rejected returns the failed
\* outcome and leaves the listing, if it still exists, with the descriptive
\* fields and the price rows it had before the result was applied.
C8_RejectedWriteKeepsPriorState ==
  [][\A p \in Reqs :
       LET h == req[p].hotelId
       IN (/\ scrapeHotel_createMany(p)
           /\ ~CreateManyAccepted(PriceData(h, req[p].scraped))
           /\ Exists(h))
          => /\ req'[p].response = "error"
             /\ hotel'[h] = req[p].prior.hotel
             /\ RowsOf(h)' = req[p].prior.rows]_vars

\* C9: the acknowledgment of a registration is returned in the step that
\* creates the listing, for a URL that was not stored, with only the URL
\* populated, no price row, and the scrape still running; it is never taken
\* back, however the scrape ends.
C9_AcknowledgedBeforeScrape ==
  [][\A p \in Reqs :
       /\ (req[p].response # "accepted" /\ req'[p].response = "accepted")
          => /\ FindByUrl(req[p].url) = {}
             /\ hotel'[req'[p].hotelId] = NewHotel(req[p].url)
             /\ \A r \in dailyPrice' : r.hotelId # req'[p].hotelId
             /\ req'[p].pc = "bg_scraping"
       /\ req[p].response = "accepted" => req'[p].response = "accepted"]_vars

\* C9 witness: a registration has been acknowledged, its scrape is still
\* running and the listing holds only its URL.
C9_Witness ==
  \E p \in Reqs :
    /\ req[p].response = "accepted"
    /\ req[p].pc = "bg_scraping"
    /\ hotel[req[p].hotelId] = NewHotel(req[p].url)

\* C10: a scrape attempt that has ended has no open browser.
C10_BrowserClosedOnEveryExit ==
  \A a \in Attempts : attempt[a].pc = "ended" => attempt[a].browser # "open"

\* Whether the string has no decimal digit at all.
NoNumber(s) == \A i \in DOMAIN s : ~IsDigit(s[i])

\* C17: the price parser returns the number 0, not NaN, for every input
\* without a parseable number: the empty string, a currency glyph and/or a K
\* or M alone, a K or M next to text that is not a number.
C17_NoNumberParsesToZero ==
  (call.fn = "parsePrice" /\ call.pc = "returned" /\ NoNumber(call.arg))
    => call.ret = Zero

Multiplier(suffix) ==
  IF suffix = <<"K">> THEN 1000 ELSE IF suffix = <<"M">> THEN 1000000 ELSE 1

\* C18: for a price string glyph, decimal number, suffix the price parser
\* returns the Number that is the decimal number times 1, 1,000 (K) or
\* 1,000,000 (M); it returns 1600 for "€1.6K", 150 for "€150", 0 for "" and
\* 0 for "garbage".
C18_ParsesNumberTimesSuffix ==
  (call.fn = "parsePrice" /\ call.pc = "returned")
    => /\ \A g \in Glyphs, i \in IntParts, f \in FracParts, x \in Suffixes :
            call.arg = PriceString(g, i, f, x)
              => call.ret = DecimalToDouble(MulSmall(Natural(i \o f), Multiplier(x), 0),
                                            Len(f))
       /\ call.arg = <<"€", "1", ".", "6", "K">> => call.ret = DecimalToDouble(Bits(1600), 0)
       /\ call.arg = <<"€", "1", "5", "0">> => call.ret = DecimalToDouble(Bits(150), 0)
       /\ call.arg = <<>> => call.ret = Zero
       /\ call.arg = <<"g", "a", "r", "b", "a", "g", "e">> => call.ret = Zero

\* The places of a path where the segments hotel, <locale>, <slug>.html
\* follow each other.
PathPattern(path) ==
  {i \in DOMAIN path : path[i] = HotelSegment /\ i + 2 <= Len(path) /\ path[i + 2].html}

\* C19: both identifier extractors return the value of the query parameter
\* when the URL has one, also when it has the path pattern; else the decimal
\* digits the slug of the path pattern starts with (empty when there are
\* none); and empty for every other input, a string that is not a URL
\* included.
C19_QueryParameterBeforePath ==
  (call.fn \in {"extractHotelIdFromUrl", "extractHotelId"} /\ call.pc = "returned")
    => LET url == call.arg
           pattern == PathPattern(url.path)
           first == CHOOSE i \in pattern : \A j \in pattern : i <= j
       IN call.ret = IF ~url.absolute THEN <<>>
                     ELSE IF url.highlighted_hotels # <<>> THEN url.highlighted_hotels
                     ELSE IF pattern # {} THEN url.path[first + 2].digits
                     ELSE <<>>

\* C14: a step of a rescrape request leaves the price rows of every other
\* listing as they were; and when the request inserts its rows while every
\* other request is for another listing, the rows of its listing become what
\* the request alone produces (the scraped set, or no row when the insert is
\* rejected after the delete).
C14_RescrapesDoNotInterfere ==
  [][\A p \in Reqs :
       /\ req'[p] # req[p]
            => \A h \in HotelIds : h # req'[p].hotelId => RowsOf(h)' = RowsOf(h)
       /\ (scrapeHotel_createMany(p) /\ \A q \in Reqs \ {p} : req[q].hotelId # req[p].hotelId)
            => LET h == req[p].hotelId
                   batch == PriceData(h, req[p].scraped)
               IN RowsOf(h)' = IF UniqueHotelDate({}, batch) THEN Insert({}, batch) ELSE {}]_vars

\* C14 witness: the rescrapes of two different listings are both between
\* their delete and their insert, and the second one has deleted its rows.
C14_Witness ==
  \E p, q \in Reqs :
    /\ req[p].pc = "rs_createMany" /\ req[q].pc = "rs_createMany"
    /\ req[p].hotelId # req[q].hotelId
    /\ RowsOf(req[p].hotelId) = {} /\ RowsOf(req[q].hotelId) = {}

\* C15: every stored price row belongs to a listing that exists: a deleted
\* listing has no price row, in the state after the deletion and in every
\* later one.
C15_NoRowOfDeletedListing ==
  \A r \in dailyPrice : Exists(r.hotelId)

\* C15 witness: a listing has been deleted while a background scrape or a
\* rescrape of it stood before its price insert.
C15_Witness ==
  \E p, q \in Reqs :
    /\ req[p].pc \in {"bg_createMany", "rs_createMany"}
    /\ req[q].op = "deleteHotel" /\ req[q].response = "true"
    /\ req[q].hotelId = req[p].hotelId
    /\ ~Exists(req[p].hotelId)

\* C13: an attempt started with a URL that fails validation is rejected at
\* once: it launches no browser and issues no navigation.
C13_InvalidUrlNeverStartsScrape ==
  \A a \in Attempts :
    (attempt[a].pc # "idle" /\ ~isValidBookingUrl(attempt[a].url))
      => /\ attempt[a].pc = "ended" /\ attempt[a].outcome = "rejected"
         /\ attempt[a].browser = "null" /\ ~attempt[a].navigated

\* C11: an attempt whose navigation succeeded, whose hook never fired and
\* whose manual replay failed ends resolved, with an empty day list.
C11_ReplayFailureIsEmptySuccess ==
  \A a \in Attempts :
    (/\ attempt[a].pc = "ended" /\ attempt[a].navigated
     /\ attempt[a].hookFired = 0
     /\ attempt[a].replay \in {"failed", "rejected"})
      => attempt[a].outcome = "resolved" /\ attempt[a].days = <<>>

\* C12: an attempt on a valid URL whose navigation succeeded ends resolved,
\* whatever fails in metadata extraction, interception, replay or DOM scraping.
C12_OnlyNavigationFails ==
  \A a \in Attempts :
    (/\ attempt[a].pc = "ended" /\ attempt[a].navigated
     /\ isValidBookingUrl(attempt[a].url))
      => attempt[a].outcome = "resolved"

\* The day list the payload stands for: entry i has the date, the parsed
\* price and the flag of payload entry i.
DayListOf(payload) ==
  [i \in 1..Len(payload) |->
     AvailabilityDay(payload[i].checkin, parsePrice(payload[i].avgPriceFormatted),
                     payload[i].available, payload[i].minLengthOfStay)]

\* The number as a double.
Double(n) == DecimalToDouble(Bits(n), 0)

\* The hit path: the hook handled one response, a calendar payload, and the
\* returned list is the interceptor's (no replay, no DOM scraping).
HitPath(rec) ==
  /\ rec.returned
  /\ rec.hookFired = 1
  /\ Len(rec.captured) = 1 /\ rec.captured[1].shape = "calendar"
  /\ IF rec.impl = "graphql" THEN rec.replay = "none" ELSE rec.tier = "intercept"

\* C16: on the hit path the day list has one entry per payload entry, in the
\* payload's order, with the payload's date and flag and the parsed price;
\* the documented example gives (2024-01-01, 150, true), (2024-01-02, 1200, false).
C16_HitPathKeepsPayloadOrder ==
  \A a \in Attempts :
    HitPath(attempt[a])
      => LET payload == attempt[a].captured[1].days
         IN /\ attempt[a].days = DayListOf(payload)
            /\ payload = ExampleDays
                 => attempt[a].days =
                      <<AvailabilityDay("2024-01-01", Double(150), TRUE, 0),
                        AvailabilityDay("2024-01-02", Double(1200), FALSE, 2)>>

C16_Witness ==
  \E a \in Attempts :
    /\ HitPath(attempt[a]) /\ attempt[a].pc = "ended"
    /\ attempt[a].outcome = "resolved"
    /\ attempt[a].captured[1].days = ExampleDays
    /\ Len(attempt[a].days) = 2

\* Whether the tier has produced at least one day entry.
InterceptYielded(rec) ==
  \E i \in DOMAIN rec.captured :
    rec.captured[i].shape = "calendar" /\ rec.captured[i].days # <<>>

ReplayYielded(rec) ==
  /\ rec.replay = "answered" /\ rec.source = "replay"
  /\ rec.graphqlResponse.shape = "calendar" /\ rec.graphqlResponse.days # <<>>

HighestYielding(rec) ==
  IF InterceptYielded(rec) THEN "intercept"
  ELSE IF ReplayYielded(rec) THEN "replay"
  ELSE IF rec.tier = "dom" THEN "dom"
  ELSE "none"

\* C20: the replay is issued only when no calendar response has been
\* captured, DOM scraping starts only when the replay has yielded nothing,
\* and the returned list comes from the highest-priority tier that yielded
\* data.
C20_TiersInPriorityOrder ==
  [][\A a \in Attempts :
       /\ (attempt[a].pc # "evaluate" /\ attempt'[a].pc = "evaluate")
            => \A i \in DOMAIN attempt[a].captured :
                 attempt[a].captured[i].shape # "calendar"
       /\ (attempt[a].pc # "dom" /\ attempt'[a].pc = "dom")
            => ~InterceptYielded(attempt[a]) /\ ~ReplayYielded(attempt[a])
       /\ (~attempt[a].returned /\ attempt'[a].returned)
            => attempt'[a].tier = HighestYielding(attempt'[a])]_vars

\* C21: the step in which an attempt that captured nothing returns an empty
\* day list is the DOM scraping step: the list is never returned empty
\* without the DOM tier having been tried.
C21_DomTriedBeforeEmptyList ==
  [][\A a \in Attempts :
       (/\ ~attempt[a].returned /\ attempt'[a].returned
        /\ attempt'[a].captured = <<>>
        /\ attempt'[a].replay \in {"none", "failed"}
        /\ attempt'[a].days = <<>>)
         => attempt[a].pc = "dom"]_vars

\* C22: the hook is registered when navigation starts, and every data-API
\* response of the page is handled by it.
C22_HookBeforeNavigation ==
  \A a \in Attempts :
    /\ attempt[a].pc = "goto" => attempt[a].listening
    /\ attempt[a].hookFired = attempt[a].responses

\* The calendar responses with days that the listener has been handed.
ArrivedWithDays(rec) ==
  {b \in {rec.inflight[i] : i \in DOMAIN rec.inflight}
            \cup {rec.captured[i] : i \in DOMAIN rec.captured} :
     b.shape = "calendar" /\ b.days # <<>>}

\* C23: when the grace window has elapsed and a calendar response with days
\* has arrived in it, the interceptor's list is returned and holds the days of
\* every such response, whether or not its body had been parsed by then.
C23_ResponseInWindowIsReturned ==
  [][\A a \in Attempts :
       (attempt_wait(a, TRUE) /\ ArrivedWithDays(attempt[a]) # {})
         => /\ attempt'[a].returned /\ attempt'[a].tier = "intercept"
            /\ \A b \in ArrivedWithDays(attempt[a]) :
                 \A i \in DOMAIN b.days :
                   \E j \in DOMAIN attempt'[a].days :
                     attempt'[a].days[j].checkin = b.days[i].checkin]_vars

\* A body that deviates from the expected shape.
Deviates(body) == body.shape \in {"notJson", "noCalendar", "daysNotList"}

\* C25: a step that parses a deviating body does not make the attempt fail
\* and adds no entry to a day list.
C25_DeviatingBodyIsNoData ==
  [][\A a \in Attempts :
       /\ (/\ attempt[a].impl = "graphql"
           /\ attempt[a].pc \in {"metadata", "evaluate"}
           /\ attempt'[a].pc = "finally"
           /\ attempt'[a].replay # "rejected"
           /\ Deviates(attempt'[a].graphqlResponse))
            => ~attempt'[a].thrown /\ attempt'[a].days = <<>>
       /\ \A i \in DOMAIN attempt[a].inflight :
            (/\ attempt[a].impl = "package"
             /\ Deviates(attempt[a].inflight[i])
             /\ attempt'[a].inflight = Remove(attempt[a].inflight, i))
              => /\ attempt'[a].thrown = attempt[a].thrown
                 /\ attempt'[a].availabilityData = attempt[a].availabilityData
                 /\ attempt'[a].days = attempt[a].days]_vars

\* C30: the day list an attempt returns has at most one entry per check-in
\* date.
C30_OneEntryPerDate ==
  \A a \in Attempts :
    attempt[a].returned
      => \A i, j \in DOMAIN attempt[a].days :
           attempt[a].days[i].checkin = attempt[a].days[j].checkin => i = j

ScrapedSet(h, s) == {PriceData(h, s)[i] : i \in DOMAIN s.dailyPrices}

\* C26: when two rescrape requests of the same listing have both obtained a
\* result with a day list (one entry per date) and both have ended, the
\* stored price set of the listing is the scraped set of one of them: not a
\* union or mixture of the two, and not empty.
C26_ConcurrentRescrapesLeaveOneSet ==
  \A p, q \in Rescrapes :
    LET h == req[p].hotelId
    IN (/\ p # q
        /\ req[p].pc = "done" /\ req[q].pc = "done"
        /\ req[p].op = "scrapeHotel" /\ req[q].op = "scrapeHotel"
        /\ req[q].hotelId = h
        /\ req[p].obtained # NoResult /\ req[q].obtained # NoResult
        /\ UniqueHotelDate({}, PriceData(h, req[p].obtained))
        /\ UniqueHotelDate({}, PriceData(h, req[q].obtained)))
       => \/ Data(RowsOf(h)) = ScrapedSet(h, req[p].obtained)
          \/ Data(RowsOf(h)) = ScrapedSet(h, req[q].obtained)

\* A request whose registration was accepted: it created a listing and
\* started the background scrape of it.
StartedScrape(p) == req[p].op = "addHotel" /\ req[p].response = "accepted"

OneListingPerUrl ==
  /\ \A url \in Urls : Cardinality(FindByUrl(url)) <= 1
  /\ \A p, q \in Reqs :
        (StartedScrape(p) /\ StartedScrape(q) /\ req[p].hotelId = req[q].hotelId)
          => p = q

\* A step of a registration whose URL is stored when the step is taken.
RegistersStoredUrl(p) ==
  \/ \E url \in Urls : addHotel_findUnique(p, url) /\ FindByUrl(url) # {}
  \/ addHotel_create(p) /\ FindByUrl(req[p].url) # {}

\* C27: at most one listing exists per URL and every background scrape that
\* was started belongs to a listing of its own; a registration whose URL is
\* already stored, at its lookup or (after a lost race) at its create,
\* returns a not-accepted result, creates no listing and starts no scrape.
C27_OneListingAndScrapePerUrl ==
  /\ []OneListingPerUrl
  /\ [][\A p \in Reqs :
          RegistersStoredUrl(p)
            => /\ req'[p].response \in {"exists", "error"}
               /\ req'[p].pc = "done"
               /\ hotel' = hotel /\ nextId' = nextId]_vars

C27_Witness ==
  \E p, q \in Reqs :
    /\ req[p].op = "addHotel" /\ req[p].response = "error"
    /\ StartedScrape(q) /\ Exists(req[q].hotelId)
    /\ \A url \in Urls : Cardinality(FindByUrl(url)) <= 1

\* A step of the background scrape or of the rescrape of request p, from the
\* return of the scraper to the end of the handler.
CompletionStep(p) ==
  \/ \E s \in ScrapeResults : background_then(p, s)
  \/ background_createMany(p)
  \/ background_reject(p)
  \/ background_catch(p)
  \/ \E s \in ScrapeResults : scrapeHotel_update(p, s)
  \/ scrapeHotel_reject(p)
  \/ scrapeHotel_deleteMany(p)
  \/ scrapeHotel_createMany(p)

\* C29: a step that a background scrape or a rescrape takes after its
\* listing was deleted leaves the store as it was: no listing is created or
\* changed and no price row is written or removed.
C29_LateCompletionChangesNothing ==
  [][\A p \in Reqs :
       (CompletionStep(p) /\ Missing(req[p].hotelId))
         => /\ hotel' = hotel
            /\ dailyPrice' = dailyPrice
            /\ nextId' = nextId]_vars

C29_Witness ==
  \E p, q \in Reqs :
    /\ req[p].op = "addHotel" /\ req[p].pc = "bg_caught" /\ req[p].late
    /\ req[q].op = "scrapeHotel" /\ req[q].pc = "done" /\ req[q].late
    /\ req[q].hotelId = req[p].hotelId

\* The background task of request p has ended.
Ended(p) == req[p].pc \in {"bg_applied", "bg_caught"}

\* The listing of request p carries the error marker, or its descriptive
\* fields are the ones of the result that p's background scrape wrote.
Settled(p) ==
  LET h == req[p].hotelId
  IN /\ Exists(h)
     /\ \/ hotel[h].name = ErrorName
        \/ /\ req[p].obtained # NoResult
           /\ hotel[h] = UpdateData(hotel[h], req[p].obtained)

====
